---- MODULE Spec2Model ----
(***************************************************************************)
(* Quiz attempt and scoring engine of Learning Cloud                       *)
(* (apps/quizzes: models.py, serializers.py, views.py; apps/signals.py).   *)
(*                                                                         *)
(* The database runs in autocommit mode (no ATOMIC_REQUESTS, no            *)
(* transaction.atomic in the quiz code), so every ORM statement of a       *)
(* handler is one atomic step and handlers of concurrent requests          *)
(* interleave between statements.  Each request slot r carries the         *)
(* handler's position pc[r] and its in-memory objects loc[r].              *)
(*                                                                         *)
(* Spec    : requests of one student interleave statement by statement;    *)
(*           at most MaxOverlaps requests arrive while another one is      *)
(*           inside its handler.                                           *)
(* SpecSeq : the same statements for two students, one request at a time   *)
(*           (sequential calls).                                           *)
(* SpecSession : SpecSeq's steps for one student, with the session         *)
(*           endpoint (QuizSessionView, PUT/PATCH) added.                  *)
(* SpecEval : one student, one request at a time, on one-question quizzes  *)
(*           of each graded type and on a quiz without active questions.   *)
(* SpecDrive : a student who starts attempts and keeps submitting a valid  *)
(*           answer for the current question, with fairness.               *)
(*                                                                         *)
(* Scores are Python floats (earned/total)*100 in the code; the model      *)
(* keeps them as exact reduced fractions <<n, d>>, None as <<>>.           *)
(* The question bank is fixed during a run (no question edits).            *)
(* Collaborators fired from save hooks (analytics rows, notifications,     *)
(* mail tasks) are outside the model.                                      *)
(***************************************************************************)
EXTENDS Integers, Sequences, FiniteSets, TLC

\* ---------------------------------------------------------------- bounds
NumReqs == 2
MaxAttemptRows == 2
MaxOverlaps == 1

Reqs == 1..NumReqs
Students == {"s1", "s2"}

None == <<>>

\* --------------------------------------------------------------- strings
\* A Python str is a sequence of one-character strings.
UpperToLower ==
  [c \in {"A", "B", "T", "F", "P"} |->
     CASE c = "A" -> "a" [] c = "B" -> "b" [] c = "T" -> "t"
       [] c = "F" -> "f" [] c = "P" -> "p"]

LowerChar(c) == IF c \in DOMAIN UpperToLower THEN UpperToLower[c] ELSE c

\* str.lower()
Lower(s) == [i \in DOMAIN s |-> LowerChar(s[i])]

IsSpace(c) == c \in {" ", "\t", "\n"}

RECURSIVE LStrip(_)
LStrip(s) == IF s # <<>> /\ IsSpace(Head(s)) THEN LStrip(Tail(s)) ELSE s

RECURSIVE RStrip(_)
RStrip(s) ==
  IF s # <<>> /\ IsSpace(s[Len(s)]) THEN RStrip(SubSeq(s, 1, Len(s) - 1)) ELSE s

\* str.strip()
Strip(s) == RStrip(LStrip(s))

\* a in b, for Python strs
IsSubstring(a, b) ==
  \E i \in 0..(Len(b) - Len(a)) : SubSeq(b, i + 1, i + Len(a)) = a

\* A JSONField value: a string or a list of strings.
JStr(s) == [tag |-> "str", v |-> s]
JList(l) == [tag |-> "list", v |-> l]

RECURSIVE ListRepr(_)
ListRepr(l) ==
  IF l = <<>> THEN <<>>
  ELSE <<"'">> \o Head(l) \o <<"'">>
       \o (IF Tail(l) = <<>> THEN <<>> ELSE <<",", " ">>) \o ListRepr(Tail(l))

\* str(value)
StrOf(j) == IF j.tag = "str" THEN j.v ELSE <<"[">> \o ListRepr(j.v) \o <<"]">>

\* ------------------------------------------------------- answer evaluator
\* views.check_answer_correctness
check_answer_correctness(question, answer_text) ==
  CASE question.question_type = "MULTIPLE_CHOICE" ->
         Lower(answer_text) = Lower(StrOf(question.correct_answer))
    [] question.question_type = "TRUE_FALSE" ->
         Lower(answer_text) = Lower(StrOf(question.correct_answer))
    [] question.question_type = "FILL_IN_BLANK" ->
         LET correct_answers ==
               IF question.correct_answer.tag = "list"
               THEN question.correct_answer.v
               ELSE <<question.correct_answer.v>>
         IN \E i \in DOMAIN correct_answers :
              Strip(Lower(answer_text)) = Strip(Lower(correct_answers[i]))
    [] question.question_type = "SHORT_ANSWER" ->
         LET correct_answer == Lower(StrOf(question.correct_answer))
         IN \/ IsSubstring(Strip(Lower(answer_text)), correct_answer)
            \/ IsSubstring(correct_answer, Strip(Lower(answer_text)))
    [] OTHER -> FALSE

\* SubmitAnswerSerializer.validate: the answer_text a question type accepts
ValidAnswerText(question, answer_text) ==
  CASE question.question_type = "MULTIPLE_CHOICE" -> answer_text # <<>>
    [] question.question_type = "TRUE_FALSE" ->
         answer_text \in { <<"t", "r", "u", "e">>, <<"f", "a", "l", "s", "e">>,
                           <<"T", "r", "u", "e">>, <<"F", "a", "l", "s", "e">> }
    [] question.question_type \in {"FILL_IN_BLANK", "SHORT_ANSWER"} ->
         answer_text # <<>>
    [] OTHER -> TRUE

\* ------------------------------------------------------------ quiz bank
Question(id, qtype, correct, points, active) ==
  [id |-> id, question_type |-> qtype, correct_answer |-> correct,
   points |-> points, is_active |-> active]

\* The quiz of apps/tests.py (QuizSystemTestCase.setUp) with one attempt
\* allowed: one MULTIPLE_CHOICE question worth 1 point, passing score 70.
QuizOne ==
  [max_attempts |-> 1, passing_score |-> 70,
   questions |-> << Question(1, "MULTIPLE_CHOICE", JStr(<<"B">>), 1, TRUE) >>]

\* Two active questions worth 1 and 3 points around an inactive one.
QuizTwo ==
  [max_attempts |-> 2, passing_score |-> 25,
   questions |-> << Question(1, "MULTIPLE_CHOICE", JStr(<<"B">>), 1, TRUE),
                    Question(2, "SHORT_ANSWER", JStr(<<"a", "b">>), 2, FALSE),
                    Question(3, "TRUE_FALSE", JStr(<<"t", "r", "u", "e">>), 3, TRUE) >>]

Quizzes == {QuizOne, QuizTwo}

\* Quizzes of one question each for the answer evaluator: correct_answer is a
\* JSONField no code of the repository normalises, stored here as the sample
\* data stores it ("B", "True") and with white space around it.
EvalQuiz(qtype, correct) ==
  [max_attempts |-> 1, passing_score |-> 70,
   questions |-> << Question(1, qtype, JStr(correct), 1, TRUE) >>]

EvalMultipleChoice == EvalQuiz("MULTIPLE_CHOICE", <<"B">>)
EvalMultipleChoicePadded == EvalQuiz("MULTIPLE_CHOICE", <<"B", " ">>)
EvalTrueFalse == EvalQuiz("TRUE_FALSE", <<"T", "r", "u", "e">>)
EvalShortAnswer == EvalQuiz("SHORT_ANSWER", <<"a", "b">>)
EvalShortAnswerPadded == EvalQuiz("SHORT_ANSWER", <<"a", "b", " ">>)

\* A quiz without active questions: its point total is 0.
QuizEmpty ==
  [max_attempts |-> 1, passing_score |-> 70,
   questions |-> << Question(1, "MULTIPLE_CHOICE", JStr(<<"B">>), 1, FALSE) >>]

EvalQuizzes ==
  {EvalMultipleChoice, EvalMultipleChoicePadded, EvalTrueFalse,
   EvalShortAnswer, EvalShortAnswerPadded, QuizEmpty}

\* Request inputs
QuestionIds == {1, 2, 3}
AnswerTexts == { <<"b">>, <<>>, <<"T", "r", "u", "e">>, <<"f", "a", "l", "s", "e">> }
EvalTexts ==
  { <<"b">>, <<" ", "B", " ">>, <<"a">>, <<"a", "b", "a">>, <<>>,
    <<"T", "r", "u", "e">>, <<"f", "a", "l", "s", "e">> }
TimeSpents == {4}

\* the answer_text values of the requests sent for a quiz
AnswerTextsOf(qz) == IF qz \in Quizzes THEN AnswerTexts ELSE EvalTexts

\* CharField(required=False, allow_blank=True).to_internal_value: DRF trims
\* the value (trim_whitespace defaults to True) before validate() sees it
to_internal_value(data) == Strip(data)

VARIABLES
  quiz,       \* the Quiz row and its Question rows (ordered by order_index)
  attempts,   \* quiz_attempts table: sequence, index = primary key
  sessions,   \* quiz_sessions table: session_key -> row
  answers,    \* answers table: <<attempt id, question id>> -> row
  results,    \* quiz_results table: attempt id -> row
  pc,         \* per request: position in its handler
  loc,        \* per request: the handler's local (in-memory) objects
  resp,       \* the response the last step returned, if it returned one
  clients,    \* the students who send requests
  overlaps    \* requests that arrived while another one was in its handler

vars == <<quiz, attempts, sessions, answers, results, pc, loc, resp,
          clients, overlaps>>

\* quiz.questions.filter(is_active=True).order_by('order_index')
ActiveQuestions(qz) == SelectSeq(qz.questions, LAMBDA q : q.is_active)

\* Question.objects.get(id=question_id, is_active=True): the rows found
QuestionsById(qz, id) ==
  {i \in DOMAIN qz.questions : qz.questions[i].id = id /\ qz.questions[i].is_active}

\* question = Question.objects.get(id=question_id, is_active=True)
QuestionById(qz, id) == qz.questions[CHOOSE i \in QuestionsById(qz, id) : TRUE]

\* ----------------------------------------------------------- arithmetic
RECURSIVE GCD(_, _)
GCD(a, b) == IF b = 0 THEN a ELSE GCD(b, a % b)

\* (earned / total) * 100 as an exact fraction in lowest terms
Percent(earned, total) ==
  LET g == GCD(100 * earned, total)
  IN IF earned = 0 THEN <<0, 1>> ELSE <<(100 * earned) \div g, total \div g>>

\* score >= p, score < p for a fraction score and an integer p
ScoreGE(score, p) == score[1] >= p * score[2]
ScoreLT(score, p) == score[1] < p * score[2]

RECURSIVE SumPoints(_)
SumPoints(qs) == IF qs = <<>> THEN 0 ELSE Head(qs).points + SumPoints(Tail(qs))

RECURSIVE SumEarned(_, _)
SumEarned(ans, K) ==
  IF K = {} THEN 0
  ELSE LET k == CHOOSE y \in K : TRUE
       IN ans[k].points_earned + SumEarned(ans, K \ {k})

\* fault variant: the points of every question, inactive ones included
TotalPointsAllQuestions(qz) == SumPoints(qz.questions)

\* sum(q.points for q in self.quiz.questions.filter(is_active=True))
TotalPoints(qz) == SumPoints(ActiveQuestions(qz))

\* sum(answer.points_earned for answer in self.answers.all())
EarnedPoints(ans, a) == SumEarned(ans, {k \in DOMAIN ans : k[1] = a})

\* ------------------------------------------------------------------ rows
\* QuizAttempt.objects.create(student, quiz, total_questions): column defaults
NewAttempt(student, total_questions) ==
  [student |-> student, completed_at |-> FALSE, score |-> None,
   total_questions |-> total_questions, correct_answers |-> 0,
   time_spent |-> 0, is_passed |-> FALSE, is_abandoned |-> FALSE]

\* QuizSession.objects.create(student, quiz, session_key): column defaults
NewSession(student) ==
  [student |-> student, current_question_index |-> 0, is_active |-> TRUE]

\* session_key = f"{student.id}_{quiz.id}_{attempt.id}" (one quiz in the model)
SessionKey(student, attempt_id) == <<student, attempt_id>>

\* session.attempt: the attempt a session wraps, the one its key names
SessionAttempt(session_key) == session_key[2]

\* fault variant: the lookup without is_active=True
SessionFoundAnyState(ss, session_key, user) ==
  /\ session_key \in DOMAIN ss
  /\ ss[session_key].student = user

\* fault variant: the lookup without student=request.user
ActiveSessionOfAnyStudent(ss, session_key, user) ==
  /\ session_key \in DOMAIN ss
  /\ ss[session_key].is_active

\* QuizSession.objects.get(session_key=..., student=request.user, is_active=True)
ActiveSessionFound(ss, session_key, user) ==
  /\ session_key \in DOMAIN ss
  /\ ss[session_key].student = user
  /\ ss[session_key].is_active

\* --------------------------------------------------------------- requests
NoAttempt == NewAttempt("nobody", 0)

LocIdle ==
  [kind |-> "none", user |-> "nobody", key |-> <<"nobody", 0>>, qid |-> 0,
   text |-> <<>>, tsp |-> 0, idx |-> 0, is_correct |-> FALSE, att |-> NoAttempt]

\* QuizAttemptCreateSerializer.Meta.fields: the body of the 201 response
StartAttemptFields == {"quiz"}

\* the keys of the body of a response
BodyFields(op, status, error) ==
  IF op = "none" \/ status = 500 THEN {}
  ELSE IF op = "start"
       THEN IF status = 201 THEN StartAttemptFields ELSE {}
  ELSE IF status = 200
       THEN IF op = "submit"
            THEN {"message", "is_correct", "explanation",
                  "next_question_index", "is_completed"}
            ELSE IF op = "complete" THEN {"message", "attempt", "result"}
            ELSE IF op = "update"
                 THEN {"id", "quiz", "session_key", "current_question_index",
                       "current_question", "progress", "started_at",
                       "last_activity", "is_active"}
            ELSE {"message"}
  ELSE IF error = "InvalidQuestion" THEN {"question_id"}
  ELSE IF error = "InvalidAnswer" THEN {"non_field_errors"}
  ELSE {"error"}

Response(op, user, key, status, error) ==
  [op |-> op, user |-> user, key |-> key, status |-> status, error |-> error,
   is_correct |-> FALSE, next_question_index |-> 0, is_completed |-> FALSE,
   fields |-> BodyFields(op, status, error)]

NoResponse == Response("none", "nobody", <<"nobody", 0>>, 0, "none")

\* session keys a client may send: the existing ones and one that never existed
RequestKeys == DOMAIN sessions \cup {<<"s1", 0>>}

\* some other request is inside a handler
Busy(r) == \E o \in Reqs \ {r} : pc[o] # "idle"

\* a request reaches the server on slot r (the last response was delivered)
Arrives(r) == pc[r] = "idle" /\ resp = NoResponse

Overlap(r) ==
  IF Busy(r)
  THEN overlaps < MaxOverlaps /\ overlaps' = overlaps + 1
  ELSE overlaps' = overlaps

Return(r, rsp) ==
  /\ resp' = rsp
  /\ pc' = [pc EXCEPT ![r] = "idle"]
  /\ loc' = [loc EXCEPT ![r] = LocIdle]

Jump(r, label, l) ==
  /\ pc' = [pc EXCEPT ![r] = label]
  /\ loc' = [loc EXCEPT ![r] = l]
  /\ resp' = NoResponse

\* the first checks of the request fail: the handler returns at once
Reject(r, rsp) == Overlap(r) /\ Return(r, rsp)

\* the request passed its first checks and enters its handler
Admit(r, label, l) == Overlap(r) /\ Jump(r, label, l)

\* the handler of r returns its response
Reply(r, rsp) == Return(r, rsp) /\ UNCHANGED overlaps

\* the handler of r moves on to its next statement
Goto(r, label, l) == Jump(r, label, l) /\ UNCHANGED overlaps

\* the client receives the response
Deliver ==
  /\ resp # NoResponse
  /\ resp' = NoResponse
  /\ UNCHANGED <<quiz, attempts, sessions, answers, results, pc, loc,
                 clients, overlaps>>

InitDb ==
  /\ quiz \in Quizzes
  /\ attempts = <<>>
  /\ sessions = <<>>
  /\ answers = <<>>
  /\ results = <<>>
  /\ pc = [r \in Reqs |-> "idle"]
  /\ loc = [r \in Reqs |-> LocIdle]
  /\ resp = NoResponse
  /\ overlaps = 0

Init == InitDb /\ clients = {"s1"}

InitSeq == InitDb /\ clients = Students

\* ------------------------------------------------------------ start_attempt
\* fault variant: abandoned attempts are not counted
AttemptCountNotAbandoned(atts, student) ==
  Cardinality({i \in DOMAIN atts :
                 atts[i].student = student /\ ~atts[i].is_abandoned})

\* QuizAttemptCreateSerializer.create, first query: the attempt count
AttemptCount(atts, student) ==
  Cardinality({i \in DOMAIN atts : atts[i].student = student})

\* rows the requests now between their checks and their INSERT will add
PendingCreates == Cardinality({r \in Reqs : pc[r] \in {"start_session", "start_create"}})

\* fault variant: start_attempt without the attempt-limit check
StartCountUnlimited(r) ==
  /\ Arrives(r)
  /\ \E u \in clients :
       /\ Len(attempts) + PendingCreates < MaxAttemptRows
       /\ Admit(r, "start_session", [LocIdle EXCEPT !.kind = "start", !.user = u])
  /\ UNCHANGED <<quiz, attempts, sessions, answers, results, clients>>

\* first query: the student's attempts at the quiz against quiz.max_attempts
StartCount(r) ==
  /\ Arrives(r)
  /\ \E u \in clients :
       IF AttemptCount(attempts, u) >= quiz.max_attempts
       THEN Reject(r, Response("start", u, <<u, 0>>, 400, "AttemptLimitExceeded"))
       ELSE /\ Len(attempts) + PendingCreates < MaxAttemptRows
            /\ Admit(r, "start_session", [LocIdle EXCEPT !.kind = "start", !.user = u])
  /\ UNCHANGED <<quiz, attempts, sessions, answers, results, clients>>

\* second query: an active session of the student for the quiz
StartSession(r) ==
  /\ pc[r] = "start_session"
  /\ IF \E k \in DOMAIN sessions :
          sessions[k].student = loc[r].user /\ sessions[k].is_active
     THEN Reply(r, Response("start", loc[r].user, <<loc[r].user, 0>>, 400,
                            "SessionAlreadyActive"))
     ELSE Goto(r, "start_create", loc[r])
  /\ UNCHANGED <<quiz, attempts, sessions, answers, results, clients>>

\* QuizAttempt.objects.create(...)
StartCreate(r) ==
  /\ pc[r] = "start_create"
  /\ attempts' = Append(attempts,
                        NewAttempt(loc[r].user, Len(ActiveQuestions(quiz))))
  /\ Goto(r, "start_mksession",
          [loc[r] EXCEPT !.key = SessionKey(loc[r].user, Len(attempts) + 1)])
  /\ UNCHANGED <<quiz, sessions, answers, results, clients>>

\* QuizSession.objects.create(...) and the 201 response (fields = ['quiz'])
StartMkSession(r) ==
  /\ pc[r] = "start_mksession"
  /\ sessions' = sessions @@ (loc[r].key :> NewSession(loc[r].user))
  /\ Reply(r, Response("start", loc[r].user, loc[r].key, 201, "none"))
  /\ UNCHANGED <<quiz, attempts, answers, results, clients>>

\* ------------------------------------------------------------ submit_answer
\* fault variant: the question's points whatever the grading says
PointsEarnedUngraded(question, is_correct) == question.points

\* answer.points_earned = question.points if is_correct else 0
PointsEarned(question, is_correct) == IF is_correct THEN question.points ELSE 0

\* The Answer row the handler's in-memory instance holds when it is saved
AnswerRow(answer_text, time_spent, is_correct, points_earned) ==
  [answer_text |-> answer_text, time_spent |-> time_spent,
   is_correct |-> is_correct, points_earned |-> points_earned]

\* fault variant: the checks without the current-question comparison
SubmitCheckAnyQuestion(ss, qz, user, key, question_id, answer_text) ==
  LET questions == ActiveQuestions(qz)
      all == {i \in DOMAIN qz.questions : qz.questions[i].id = question_id}
  IN IF ~ActiveSessionFound(ss, key, user) THEN "SessionNotFound"
     ELSE IF QuestionsById(qz, question_id) = {} THEN "InvalidQuestion"
     ELSE IF \E i \in all : ~ValidAnswerText(qz.questions[i], answer_text)
          THEN "InvalidAnswer"
     ELSE IF ss[key].current_question_index >= Len(questions)
          THEN "AlreadyCompleted"
     ELSE "ok"

\* The outcome of the checks that precede the first write of submit_answer
SubmitCheck(ss, qz, user, key, question_id, answer_text) ==
  LET questions == ActiveQuestions(qz)
      all == {i \in DOMAIN qz.questions : qz.questions[i].id = question_id}
  IN IF ~ActiveSessionFound(ss, key, user) THEN "SessionNotFound"
     ELSE IF QuestionsById(qz, question_id) = {} THEN "InvalidQuestion"
     ELSE IF \E i \in all : ~ValidAnswerText(qz.questions[i], answer_text)
          THEN "InvalidAnswer"
     ELSE IF ss[key].current_question_index >= Len(questions)
          THEN "AlreadyCompleted"
     ELSE IF questions[ss[key].current_question_index + 1].id # question_id
          THEN "NotCurrentQuestion"
     ELSE "ok"

ErrorStatus(error) == IF error = "SessionNotFound" THEN 404 ELSE 400

\* fault variant: a submission for another question than the current one is
\* refused after the session pointer was moved
SubmitLookupSkipping(r) ==
  /\ Arrives(r)
  /\ \E u \in clients, key \in RequestKeys, qid \in QuestionIds,
        data \in AnswerTextsOf(quiz), t \in TimeSpents :
       LET text == to_internal_value(data)
           outcome == SubmitCheck(sessions, quiz, u, key, qid, text)
       IN IF outcome # "ok"
          THEN /\ Reject(r, Response("submit", u, key, ErrorStatus(outcome), outcome))
               /\ sessions' =
                    IF outcome = "NotCurrentQuestion"
                    THEN [sessions EXCEPT ![key].current_question_index = @ + 1]
                    ELSE sessions
          ELSE /\ Admit(r, "submit_answer",
                    [LocIdle EXCEPT !.kind = "submit", !.user = u, !.key = key,
                                    !.qid = qid, !.text = text, !.tsp = t,
                                    !.idx = sessions[key].current_question_index])
               /\ UNCHANGED sessions
  /\ UNCHANGED <<quiz, attempts, answers, results, clients>>

\* session lookup, serializer validation, current-question check
SubmitLookup(r) ==
  /\ Arrives(r)
  /\ \E u \in clients, key \in RequestKeys, qid \in QuestionIds,
        data \in AnswerTextsOf(quiz), t \in TimeSpents :
       LET text == to_internal_value(data)
           outcome == SubmitCheck(sessions, quiz, u, key, qid, text)
       IN IF outcome # "ok"
          THEN Reject(r, Response("submit", u, key, ErrorStatus(outcome), outcome))
          ELSE Admit(r, "submit_answer",
                    [LocIdle EXCEPT !.kind = "submit", !.user = u, !.key = key,
                                    !.qid = qid, !.text = text, !.tsp = t,
                                    !.idx = sessions[key].current_question_index])
  /\ UNCHANGED <<quiz, attempts, sessions, answers, results, clients>>

\* Answer.objects.get_or_create(attempt=session.attempt, question=question, ...)
SubmitGetOrCreate(r) ==
  LET k == <<SessionAttempt(loc[r].key), loc[r].qid>>
  IN /\ pc[r] = "submit_answer"
     /\ IF k \in DOMAIN answers
        THEN /\ UNCHANGED answers
             /\ Goto(r, "submit_update", loc[r])
        ELSE /\ answers' = answers @@ (k :> AnswerRow(loc[r].text, loc[r].tsp, FALSE, 0))
             /\ Goto(r, "submit_grade", loc[r])
     /\ UNCHANGED <<quiz, attempts, sessions, results, clients>>

\* fault variant: the existing answer is left as it was stored
SubmitUpdateKeepsOld(r) ==
  /\ pc[r] = "submit_update"
  /\ Goto(r, "submit_grade", loc[r])
  /\ UNCHANGED <<quiz, attempts, sessions, answers, results, clients>>

\* if not created: answer.answer_text, answer.time_spent = ...; answer.save()
SubmitUpdate(r) ==
  LET k == <<SessionAttempt(loc[r].key), loc[r].qid>>
  IN /\ pc[r] = "submit_update"
     /\ answers' = [answers EXCEPT ![k].answer_text = loc[r].text,
                                   ![k].time_spent = loc[r].tsp]
     /\ Goto(r, "submit_grade", loc[r])
     /\ UNCHANGED <<quiz, attempts, sessions, results, clients>>

\* is_correct = check_answer_correctness(...); answer.save()
SubmitGrade(r) ==
  LET k == <<SessionAttempt(loc[r].key), loc[r].qid>>
      question == QuestionById(quiz, loc[r].qid)
      is_correct == check_answer_correctness(question, loc[r].text)
  IN /\ pc[r] = "submit_grade"
     /\ answers' = [answers EXCEPT ![k] =
                      AnswerRow(loc[r].text, loc[r].tsp, is_correct,
                                PointsEarned(question, is_correct))]
     /\ Goto(r, "submit_session", [loc[r] EXCEPT !.is_correct = is_correct])
     /\ UNCHANGED <<quiz, attempts, sessions, results, clients>>

\* fault variant: the pointer moved past the next question
NextIndexSkipping(idx) == idx + 2

\* session.current_question_index += 1
NextIndex(idx) == idx + 1

\* 'Answer submitted successfully'
SubmitResponse(l, completed) ==
  [Response("submit", l.user, l.key, 200, "none") EXCEPT
     !.is_correct = l.is_correct, !.next_question_index = l.idx,
     !.is_completed = completed]

\* session.save() of the in-memory session read by SubmitLookup, then the
\* completion check
SubmitSaveSession(r) ==
  LET l == [loc[r] EXCEPT !.idx = NextIndex(loc[r].idx)]
  IN /\ pc[r] = "submit_session"
     /\ sessions' = [sessions EXCEPT ![l.key] =
                       [student |-> l.user, current_question_index |-> l.idx,
                        is_active |-> TRUE]]
     /\ IF l.idx >= Len(ActiveQuestions(quiz))
        THEN Goto(r, "calc_read", l)
        ELSE Reply(r, SubmitResponse(l, FALSE))
     /\ UNCHANGED <<quiz, attempts, answers, results, clients>>

\* ------------------------------------------------------------ complete_quiz
\* fault variant: complete refused while questions are unanswered
CompleteLookupAllAnswered(r) ==
  /\ Arrives(r)
  /\ \E u \in clients, key \in RequestKeys :
       IF ~ActiveSessionFound(sessions, key, u)
       THEN Reject(r, Response("complete", u, key, 404, "SessionNotFound"))
       ELSE IF sessions[key].current_question_index < Len(ActiveQuestions(quiz))
       THEN Reject(r, Response("complete", u, key, 400, "QuizNotFinished"))
       ELSE Admit(r, "calc_read",
                 [LocIdle EXCEPT !.kind = "complete", !.user = u, !.key = key,
                                 !.idx = sessions[key].current_question_index])
  /\ UNCHANGED <<quiz, attempts, sessions, answers, results, clients>>

\* complete_quiz: the session lookup
CompleteLookup(r) ==
  /\ Arrives(r)
  /\ \E u \in clients, key \in RequestKeys :
       IF ~ActiveSessionFound(sessions, key, u)
       THEN Reject(r, Response("complete", u, key, 404, "SessionNotFound"))
       ELSE Admit(r, "calc_read",
                 [LocIdle EXCEPT !.kind = "complete", !.user = u, !.key = key,
                                 !.idx = sessions[key].current_question_index])
  /\ UNCHANGED <<quiz, attempts, sessions, answers, results, clients>>

\* QuizAttempt.calculate_score: the score of an attempt from the stored answers
CalcScore(qz, ans, a) == Percent(EarnedPoints(ans, a), TotalPoints(qz))

\* fault variant: a strict comparison with the passing score
IsPassedStrict(qz, score) == score[1] > qz.passing_score * score[2]

\* self.is_passed = self.score >= self.quiz.passing_score
IsPassed(qz, score) == ScoreGE(score, qz.passing_score)

\* fault variant: the new percentage added to the score already held
calculate_score_accumulating(qz, ans, a, att) ==
  IF att.completed_at /\ TotalPoints(qz) > 0
  THEN LET new == CalcScore(qz, ans, a)
           sum == IF att.score = None THEN new
                  ELSE <<att.score[1] * new[2] + new[1] * att.score[2],
                         att.score[2] * new[2]>>
       IN [att EXCEPT !.score = sum, !.is_passed = IsPassed(qz, sum)]
  ELSE att

\* QuizAttempt.calculate_score on the in-memory attempt att of row a, up to
\* its save
calculate_score(qz, ans, a, att) ==
  IF att.completed_at /\ TotalPoints(qz) > 0
  THEN [att EXCEPT !.score = CalcScore(qz, ans, a),
                   !.is_passed = IsPassed(qz, CalcScore(qz, ans, a))]
  ELSE att

\* complete_quiz_attempt: attempt = session.attempt, completed_at set on the
\* in-memory attempt, calculate_score reads the questions and the answers
CalcRead(r) ==
  LET a == SessionAttempt(loc[r].key)
      att == [attempts[a] EXCEPT !.completed_at = TRUE]
  IN /\ pc[r] = "calc_read"
     /\ IF TotalPoints(quiz) > 0
        THEN Goto(r, "calc_save",
                  [loc[r] EXCEPT !.att = calculate_score(quiz, answers, a, att)])
        ELSE Goto(r, "deactivate", [loc[r] EXCEPT !.att = att])
     /\ UNCHANGED <<quiz, attempts, sessions, answers, results, clients>>

\* signals.validate_quiz_attempt (pre_save of QuizAttempt) on an in-memory attempt
validate_quiz_attempt(qz, ans, a, att) ==
  IF att.completed_at /\ (att.score = None \/ att.score[1] = 0) /\ TotalPoints(qz) > 0
  THEN [att EXCEPT !.score = CalcScore(qz, ans, a),
                   !.is_passed = IsPassed(qz, CalcScore(qz, ans, a))]
  ELSE att

\* calculate_score: self.save(update_fields=['score', 'is_passed'])
CalcSave(r) ==
  LET a == SessionAttempt(loc[r].key)
      att == validate_quiz_attempt(quiz, answers, a, loc[r].att)
  IN /\ pc[r] = "calc_save"
     /\ attempts' = [attempts EXCEPT ![a].score = att.score,
                                     ![a].is_passed = att.is_passed]
     /\ Goto(r, "deactivate", [loc[r] EXCEPT !.att = att])
     /\ UNCHANGED <<quiz, sessions, answers, results, clients>>

\* complete_quiz_attempt: session.is_active = False; session.save()
Deactivate(r) ==
  /\ pc[r] = "deactivate"
  /\ sessions' = [sessions EXCEPT ![loc[r].key] =
                    [student |-> loc[r].user,
                     current_question_index |-> loc[r].idx,
                     is_active |-> FALSE]]
  /\ IF loc[r].kind = "submit"
     THEN Reply(r, SubmitResponse(loc[r], TRUE))
     ELSE Goto(r, "result", loc[r])
  /\ UNCHANGED <<quiz, attempts, answers, results, clients>>

\* the threshold of generate_quiz_result's improvement suggestions
SuggestionThreshold == 70

\* generate_quiz_result: the QuizResult defaults
NewResult(att) ==
  [total_time |-> att.time_spent,
   suggestions |-> ScoreLT(att.score, SuggestionThreshold)]

\* fault variant: QuizResult.objects.create in place of get_or_create; the
\* one-to-one constraint refuses a second row
GenerateResultCreateOnly(r) ==
  LET a == SessionAttempt(loc[r].key)
  IN /\ pc[r] = "result"
     /\ IF loc[r].att.score = None
        THEN /\ UNCHANGED results
             /\ Reply(r, Response("complete", loc[r].user, loc[r].key, 500, "TypeError"))
        ELSE IF a \in DOMAIN results
        THEN /\ UNCHANGED results
             /\ Reply(r, Response("complete", loc[r].user, loc[r].key, 500, "IntegrityError"))
        ELSE /\ results' = results @@ (a :> NewResult(loc[r].att))
             /\ Reply(r, Response("complete", loc[r].user, loc[r].key, 200, "none"))
     /\ UNCHANGED <<quiz, attempts, sessions, answers, clients>>

\* generate_quiz_result(attempt) and the response of complete_quiz;
\* attempt.score < 70 raises TypeError when the score is None
GenerateResult(r) ==
  LET a == SessionAttempt(loc[r].key)
  IN /\ pc[r] = "result"
     /\ IF loc[r].att.score = None
        THEN /\ UNCHANGED results
             /\ Reply(r, Response("complete", loc[r].user, loc[r].key, 500, "TypeError"))
        ELSE /\ results' = IF a \in DOMAIN results THEN results
                           ELSE results @@ (a :> NewResult(loc[r].att))
             /\ Reply(r, Response("complete", loc[r].user, loc[r].key, 200, "none"))
     /\ UNCHANGED <<quiz, attempts, sessions, answers, clients>>

\* ------------------------------------------------------------ abandon_quiz
\* abandon_quiz: the session lookup
AbandonLookup(r) ==
  /\ Arrives(r)
  /\ \E u \in clients, key \in RequestKeys :
       IF ~ActiveSessionFound(sessions, key, u)
       THEN Reject(r, Response("abandon", u, key, 404, "SessionNotFound"))
       ELSE Admit(r, "abandon_fetch",
                 [LocIdle EXCEPT !.kind = "abandon", !.user = u, !.key = key,
                                 !.idx = sessions[key].current_question_index])
  /\ UNCHANGED <<quiz, attempts, sessions, answers, results, clients>>

\* attempt = session.attempt; is_abandoned and completed_at set in memory
AbandonFetch(r) ==
  /\ pc[r] = "abandon_fetch"
  /\ Goto(r, "abandon_save",
          [loc[r] EXCEPT !.att = [attempts[SessionAttempt(loc[r].key)] EXCEPT
                                    !.is_abandoned = TRUE, !.completed_at = TRUE]])
  /\ UNCHANGED <<quiz, attempts, sessions, answers, results, clients>>

\* fault variant: the attempt saved with update_fields=['score', 'is_passed']
AbandonSaveScoreOnly(r) ==
  LET a == SessionAttempt(loc[r].key)
      att == validate_quiz_attempt(quiz, answers, a, loc[r].att)
  IN /\ pc[r] = "abandon_save"
     /\ attempts' = [attempts EXCEPT ![a].score = att.score,
                                     ![a].is_passed = att.is_passed]
     /\ Goto(r, "abandon_session", loc[r])
     /\ UNCHANGED <<quiz, sessions, answers, results, clients>>

\* attempt.save(): the pre_save hook, then every column written
AbandonSave(r) ==
  LET a == SessionAttempt(loc[r].key)
  IN /\ pc[r] = "abandon_save"
     /\ attempts' = [attempts EXCEPT ![a] =
                       validate_quiz_attempt(quiz, answers, a, loc[r].att)]
     /\ Goto(r, "abandon_session", loc[r])
     /\ UNCHANGED <<quiz, sessions, answers, results, clients>>

\* session.is_active = False; session.save()
AbandonSession(r) ==
  /\ pc[r] = "abandon_session"
  /\ sessions' = [sessions EXCEPT ![loc[r].key] =
                    [student |-> loc[r].user,
                     current_question_index |-> loc[r].idx,
                     is_active |-> FALSE]]
  /\ Reply(r, Response("abandon", loc[r].user, loc[r].key, 200, "none"))
  /\ UNCHANGED <<quiz, attempts, answers, results, clients>>

\* --------------------------------------------------------- QuizSessionView
\* current_question_index values a client sends: the first question and an
\* index past the last question of every quiz of the bank
UpdateIndexes == {0, 3}

\* QuizSessionView.get_object for PUT/PATCH sessions/<session_key>/: the
\* DoesNotExist of the lookup is not caught
SessionUpdateLookup(r) ==
  /\ Arrives(r)
  /\ \E u \in clients, key \in RequestKeys, index \in UpdateIndexes :
       IF ~ActiveSessionFound(sessions, key, u)
       THEN Reject(r, Response("update", u, key, 500, "DoesNotExist"))
       ELSE Admit(r, "update_save",
                 [LocIdle EXCEPT !.kind = "update", !.user = u, !.key = key,
                                 !.idx = index])
  /\ UNCHANGED <<quiz, attempts, sessions, answers, results, clients>>

\* QuizSessionSerializer: current_question_index is the one writable field;
\* serializer.save() stores it on the session
SessionUpdateSave(r) ==
  /\ pc[r] = "update_save"
  /\ sessions' = [sessions EXCEPT ![loc[r].key] =
                    [student |-> loc[r].user,
                     current_question_index |-> loc[r].idx,
                     is_active |-> TRUE]]
  /\ Reply(r, Response("update", loc[r].user, loc[r].key, 200, "none"))
  /\ UNCHANGED <<quiz, attempts, answers, results, clients>>

\* ------------------------------------------------------------ specifications
Next ==
  \E r \in Reqs :
    \/ StartCount(r) \/ StartSession(r) \/ StartCreate(r) \/ StartMkSession(r)
    \/ SubmitLookup(r) \/ SubmitGetOrCreate(r) \/ SubmitUpdate(r)
    \/ SubmitGrade(r) \/ SubmitSaveSession(r)
    \/ CompleteLookup(r) \/ CalcRead(r) \/ CalcSave(r) \/ Deactivate(r)
    \/ GenerateResult(r)
    \/ AbandonLookup(r) \/ AbandonFetch(r) \/ AbandonSave(r) \/ AbandonSession(r)
    \/ Deliver

Spec == Init /\ [][Next]_vars

\* no other request is inside a handler
Alone(r) == \A o \in Reqs \ {r} : pc[o] = "idle"

NextSeq ==
  \E r \in Reqs :
    \/ Alone(r) /\ StartCount(r)
    \/ Alone(r) /\ StartSession(r)
    \/ Alone(r) /\ StartCreate(r)
    \/ Alone(r) /\ StartMkSession(r)
    \/ Alone(r) /\ SubmitLookup(r)
    \/ Alone(r) /\ SubmitGetOrCreate(r)
    \/ Alone(r) /\ SubmitGrade(r)
    \/ Alone(r) /\ SubmitSaveSession(r)
    \/ Alone(r) /\ CompleteLookup(r)
    \/ Alone(r) /\ CalcRead(r)
    \/ Alone(r) /\ CalcSave(r)
    \/ Alone(r) /\ Deactivate(r)
    \/ Alone(r) /\ GenerateResult(r)
    \/ Alone(r) /\ AbandonLookup(r)
    \/ Alone(r) /\ AbandonFetch(r)
    \/ Alone(r) /\ AbandonSave(r)
    \/ Alone(r) /\ AbandonSession(r)
    \/ Deliver

SpecSeq == InitSeq /\ [][NextSeq]_vars

\* The four operations and the session endpoint, one request at a time
NextSession ==
  \/ NextSeq
  \/ \E r \in Reqs : Alone(r) /\ SubmitUpdate(r)
  \/ \E r \in Reqs : Alone(r) /\ SessionUpdateLookup(r)
  \/ \E r \in Reqs : Alone(r) /\ SessionUpdateSave(r)

SpecSession == Init /\ [][NextSession]_vars

\* submit_answer with a valid answer for the current question of the caller's
\* active session: the request passes every check
DriveSubmit(r) == SubmitLookup(r) /\ pc'[r] = "submit_answer"

\* a statement of the handler request r is in
HandlerStep(r) ==
  \/ StartSession(r) \/ StartCreate(r) \/ StartMkSession(r)
  \/ SubmitGetOrCreate(r) \/ SubmitGrade(r) \/ SubmitSaveSession(r)
  \/ CalcRead(r) \/ CalcSave(r) \/ Deactivate(r)

\* A student who starts attempts and submits a valid answer for the current
\* question, one request at a time
NextDrive ==
  \/ \E r \in Reqs : Alone(r) /\ StartCount(r)
  \/ \E r \in Reqs : Alone(r) /\ DriveSubmit(r)
  \/ \E r \in Reqs : HandlerStep(r)
  \/ Deliver

\* The server runs every handler to its response and the client receives it
\* (weak fairness); the client keeps submitting (strong fairness: a submission
\* can be sent whenever no request is in progress).
SpecDrive ==
  /\ Init
  /\ [][NextDrive]_vars
  /\ \A r \in Reqs : WF_vars(HandlerStep(r))
  /\ WF_vars(Deliver)
  /\ SF_vars(\E r \in Reqs : Alone(r) /\ DriveSubmit(r))

\* One student, one request at a time, on the quizzes of the answer evaluator
InitEval ==
  /\ quiz \in EvalQuizzes
  /\ attempts = <<>>
  /\ sessions = <<>>
  /\ answers = <<>>
  /\ results = <<>>
  /\ pc = [r \in Reqs |-> "idle"]
  /\ loc = [r \in Reqs |-> LocIdle]
  /\ resp = NoResponse
  /\ overlaps = 0
  /\ clients = {"s1"}

SpecEval == InitEval /\ [][NextSeq]_vars

\* ===================================================================== claims

ActiveSessionsOf(u) ==
  {k \in DOMAIN sessions : sessions[k].student = u /\ sessions[k].is_active}

\* C1: for every student, under interleaved start_attempt requests too, the
\* number of QuizAttempt rows of the student for the quiz never exceeds
\* quiz.max_attempts.
C1_AttemptsWithinLimit ==
  \A u \in Students : AttemptCount(attempts, u) <= quiz.max_attempts

\* C2: in every reachable state each student has at most one QuizSession
\* with is_active = true for the quiz.
C2_OneActiveSession ==
  \A u \in Students : Cardinality(ActiveSessionsOf(u)) <= 1

\* the request whose step this is has just left label
Leaves(r, label) == pc[r] = label /\ pc'[r] # label

\* this step returned a response
Returns == resp = NoResponse /\ resp' # NoResponse

C4_EachSuccessAdvances ==
  [][ \A r \in Reqs :
        Leaves(r, "submit_session") =>
          sessions'[loc[r].key].current_question_index
            = sessions[loc[r].key].current_question_index + 1
    ]_vars

\* C5: the successful submit_answer that answers the last active question
\* returns is_completed = true, leaves the session inactive and the attempt
\* finalized (completed_at, score and is_passed stored).
C5_LastSubmitFinalizes ==
  (resp.op = "submit" /\ resp.status = 200
     /\ resp.next_question_index >= Len(ActiveQuestions(quiz))) =>
    /\ resp.is_completed
    /\ ~sessions[resp.key].is_active
    /\ attempts[SessionAttempt(resp.key)].score # None
    /\ attempts[SessionAttempt(resp.key)].is_passed
         = IsPassed(quiz, attempts[SessionAttempt(resp.key)].score)
    /\ attempts[SessionAttempt(resp.key)].completed_at

\* the step is a request rejected by its first checks
Rejected == Returns /\ pc' = pc

AnswersOf(ans, a) == [k \in {j \in DOMAIN ans : j[1] = a} |-> ans[k]]

Completed(k) ==
  /\ ~sessions[k].is_active
  /\ ~attempts[SessionAttempt(k)].is_abandoned

FullyAnswered(a) ==
  \A i \in DOMAIN ActiveQuestions(quiz) :
    <<a, ActiveQuestions(quiz)[i].id>> \in DOMAIN answers

C10_StartPreconditions ==
  [][ /\ (Returns /\ resp'.op = "start" /\ resp'.status = 400) =>
           /\ attempts' = attempts /\ sessions' = sessions
           /\ IF Cardinality({i \in DOMAIN attempts :
                                 attempts[i].student = resp'.user})
                   >= quiz.max_attempts
              THEN resp'.error = "AttemptLimitExceeded"
              ELSE /\ resp'.error = "SessionAlreadyActive"
                   /\ ActiveSessionsOf(resp'.user) # {}
      /\ \A r \in Reqs :
           (pc[r] = "idle" /\ pc'[r] = "start_session") =>
             Cardinality({i \in DOMAIN attempts :
                            attempts[i].student = loc'[r].user})
               < quiz.max_attempts
      /\ (Len(attempts') # Len(attempts) \/ DOMAIN sessions' # DOMAIN sessions) =>
           \E r \in Reqs :
             /\ loc[r].kind = "start"
             /\ pc[r] \in {"start_create", "start_mksession"}
             /\ Cardinality({i \in DOMAIN attempts :
                               attempts[i].student = loc[r].user})
                  < quiz.max_attempts + (IF pc[r] = "start_mksession" THEN 1 ELSE 0)
             /\ ActiveSessionsOf(loc[r].user) = {}
    ]_vars

\* C10 witness: AttemptLimitExceeded returned while the student's session is
\* still active
C10_Witness ==
  /\ resp.op = "start" /\ resp.error = "AttemptLimitExceeded"
  /\ ActiveSessionsOf(resp.user) # {}

\* C11: a successful start_attempt has created exactly one QuizAttempt, with
\* total_questions = the number of active questions, and exactly one
\* QuizSession with current_question_index = 0 and is_active = true, and the
\* session row is bound to that attempt (it holds a reference to it), so that
\* later calls on the session reach exactly that attempt.
C11_StartBindsSessionToAttempt ==
  (resp.op = "start" /\ resp.status = 201) =>
    /\ resp.key \in DOMAIN sessions
    /\ sessions[resp.key].current_question_index = 0
    /\ sessions[resp.key].is_active
    /\ resp.key[2] \in DOMAIN attempts
    /\ attempts[resp.key[2]].student = resp.user
    /\ attempts[resp.key[2]].total_questions
         = Cardinality({i \in DOMAIN quiz.questions : quiz.questions[i].is_active})
    /\ Cardinality({k \in DOMAIN sessions : k[2] = resp.key[2]}) = 1
    /\ "attempt" \in DOMAIN sessions[resp.key]
    /\ sessions[resp.key].attempt = resp.key[2]

\* C12: a successful start_attempt answers 201 Created with a body that holds
\* the identifier of the new attempt and the session_key of the new session.
C12_StartReturnsIds ==
  (resp.op = "start" /\ resp.status \in 200..299) =>
    /\ resp.status = 201
    /\ resp.fields \cap {"id", "attempt_id", "attempt"} # {}
    /\ "session_key" \in resp.fields

Quiescent == \A r \in Reqs : pc[r] = "idle"

\* C16: every attempt finalized by normal completion has a QuizResult: once
\* the completing request (the last submit_answer, or complete) has returned,
\* no session is completed and inactive while its attempt has no QuizResult.
C16_CompletedHasResult ==
  Quiescent =>
    \A k \in DOMAIN sessions :
      Completed(k) => SessionAttempt(k) \in DOMAIN results

C18_CompletedAtStored ==
  \A k \in DOMAIN sessions :
    (Quiescent /\ Completed(k)) => attempts[SessionAttempt(k)].completed_at

RECURSIVE SumTimeSpent(_, _)
SumTimeSpent(ans, K) ==
  IF K = {} THEN 0
  ELSE LET k == CHOOSE j \in K : TRUE
       IN ans[k].time_spent + SumTimeSpent(ans, K \ {k})

\* C19: attempt.time_spent is the sum of the time_spent of the successful
\* submissions of the attempt (with requests one at a time, of its answers).
C19_TimeSpentAccumulates ==
  Quiescent =>
    \A a \in DOMAIN attempts :
      attempts[a].time_spent
        = SumTimeSpent(answers, {k \in DOMAIN answers : k[1] = a})

C21_ChoiceGradedTrimmedFolded ==
  [][ \A r \in Reqs :
        (/\ Leaves(r, "submit_grade")
         /\ QuestionById(quiz, loc[r].qid).question_type
              \in {"MULTIPLE_CHOICE", "TRUE_FALSE"}) =>
          (answers'[<<SessionAttempt(loc[r].key), loc[r].qid>>].is_correct
             <=> Strip(Lower(loc[r].text))
                   = Strip(Lower(StrOf(QuestionById(quiz, loc[r].qid).correct_answer))))
    ]_vars

\* C22: when submit_answer grades a submission to a SHORT_ANSWER question,
\* the stored is_correct is true exactly when, both strings trimmed and
\* lower-cased, the submission occurs in the reference answer or the
\* reference answer occurs in the submission.
C22_ShortAnswerSubstringTrimmed ==
  [][ \A r \in Reqs :
        (/\ Leaves(r, "submit_grade")
         /\ QuestionById(quiz, loc[r].qid).question_type = "SHORT_ANSWER") =>
          LET submitted == Strip(Lower(loc[r].text))
              reference ==
                Strip(Lower(StrOf(QuestionById(quiz, loc[r].qid).correct_answer)))
          IN answers'[<<SessionAttempt(loc[r].key), loc[r].qid>>].is_correct
               <=> (IsSubstring(submitted, reference)
                      \/ IsSubstring(reference, submitted))
    ]_vars

\* C23: on a quiz without active questions (point total 0), a complete
\* request that found its active session returns 200 with the attempt and
\* its result, the session is inactive, the attempt's score is 0 or unset
\* and the attempt has its QuizResult.
C23_ZeroPointQuizCompletes ==
  [][ (/\ TotalPoints(quiz) = 0
       /\ Returns /\ resp'.op = "complete" /\ ~Rejected) =>
        /\ resp'.status = 200
        /\ {"attempt", "result"} \subseteq resp'.fields
        /\ ~sessions'[resp'.key].is_active
        /\ attempts'[SessionAttempt(resp'.key)].score \in {None, <<0, 1>>}
        /\ SessionAttempt(resp'.key) \in DOMAIN results'
    ]_vars

C25_OneTerminalTransition ==
  [][ /\ \A r \in Reqs :
           /\ Leaves(r, "calc_save") =>
                ~attempts[SessionAttempt(loc[r].key)].is_abandoned
           /\ Leaves(r, "abandon_save") =>
                /\ sessions[loc[r].key].is_active
                /\ ~\E o \in Reqs \ {r} :
                      /\ loc[o].key = loc[r].key
                      /\ pc[o] \in {"deactivate", "result"}
      /\ \A a \in DOMAIN attempts' :
           ~(attempts'[a].is_abandoned /\ a \in DOMAIN results')
    ]_vars

C27_OnlyOwnerDrivesSession ==
  [][ /\ \A r \in Reqs :
           (/\ pc[r] = "idle" /\ pc'[r] # "idle"
            /\ loc'[r].kind \in {"submit", "complete", "abandon"}) =>
             /\ loc'[r].key \in DOMAIN sessions
             /\ sessions[loc'[r].key].student = loc'[r].user
      /\ (/\ Returns
          /\ resp'.op \in {"submit", "complete", "abandon"}
          /\ resp'.key \in DOMAIN sessions
          /\ sessions[resp'.key].student # resp'.user) =>
           /\ Rejected
           /\ resp'.status = 404 /\ resp'.error = "SessionNotFound"
           /\ sessions' = sessions
           /\ attempts' = attempts
           /\ answers' = answers
           /\ results' = results
    ]_vars

\* C27 witness: a student's submission with the key of another student's
\* active session, which already holds an answer, was refused
C27_Witness ==
  /\ resp.op = "submit" /\ resp.error = "SessionNotFound"
  /\ resp.key \in DOMAIN sessions
  /\ sessions[resp.key].is_active
  /\ sessions[resp.key].student # resp.user
  /\ sessions[resp.key].current_question_index = 1

\* C28: in every reachable state every session's current_question_index is
\* between 0 and the number N of active questions, and below N while the
\* session is active.
C28_PointerDesignatesQuestion ==
  \A k \in DOMAIN sessions :
    /\ 0 <= sessions[k].current_question_index
    /\ sessions[k].current_question_index <= Len(ActiveQuestions(quiz))
    /\ sessions[k].is_active =>
         sessions[k].current_question_index < Len(ActiveQuestions(quiz))

\* C29: attempt rows are never removed nor given to another student, whatever
\* request runs; a start_attempt request that arrives when the student has
\* quiz.max_attempts attempts or more, in whatever state they are, is refused
\* with the attempt-limit error, and one that goes on to create an attempt
\* arrived with fewer.
C29_QuotaNeverRefunded ==
  [][ /\ Len(attempts') >= Len(attempts)
      /\ \A i \in DOMAIN attempts : attempts'[i].student = attempts[i].student
      /\ \A r \in Reqs :
           (pc[r] = "idle" /\ pc'[r] = "start_session") =>
             Cardinality({i \in DOMAIN attempts :
                            attempts[i].student = loc'[r].user})
               < quiz.max_attempts
      /\ (/\ Returns /\ resp'.op = "start" /\ Rejected
          /\ Cardinality({i \in DOMAIN attempts :
                            attempts[i].student = resp'.user})
               >= quiz.max_attempts) =>
           resp'.status = 400 /\ resp'.error = "AttemptLimitExceeded"
    ]_vars

\* C29 witness: start_attempt was refused for a student whose attempts are all
\* abandoned or completed, one of them abandoned, and who has no active session
C29_Witness ==
  /\ resp.op = "start" /\ resp.error = "AttemptLimitExceeded"
  /\ ActiveSessionsOf(resp.user) = {}
  /\ \E i \in DOMAIN attempts :
       attempts[i].student = resp.user /\ attempts[i].is_abandoned
  /\ Cardinality({i \in DOMAIN attempts : attempts[i].student = resp.user})
       = quiz.max_attempts

=============================================================================
